---- MODULE Spec2Model ----
(***************************************************************************)
(* A model of the two command-line programs of llm-data-lab:               *)
(*   program 1  src/tools/basic_analysis.py  (statistics report)           *)
(*   program 2  src/tools/visualization.py   (chart rendering)             *)
(*                                                                         *)
(* Strings that the code inspects (paths, option values, column names)    *)
(* are sequences of one-character strings, so that suffix extraction,     *)
(* lower-casing and splitting are computed and not assumed.               *)
(* A table (DataFrame) is a sequence of columns                           *)
(*     [name |-> <chars>, kind |-> "num"|"text"|"date"|"datetime",         *)
(*      vals |-> <one integer per row, Null for a missing value>].        *)
(* Correlation thresholds are in hundredths (70 stands for 0.7).          *)
(***************************************************************************)
EXTENDS Integers, Sequences, FiniteSets, TLC

VARIABLES
    prog,       \* 1: basic_analysis.py, 2: visualization.py
    entry,      \* "main", or "call": analyze_correlations(df, threshold) called directly
    argv,       \* the command line (or the arguments of the direct call)
    fs,         \* the environment: input file, old output file, i/o failure point
    df,         \* the loaded table
    pc,         \* position of the run
    console,    \* lines printed so far
    parsers,    \* parser invocations made by load_data, in order
    calls,      \* chart functions called by main, in order
    fig,        \* number of figures created
    draws,      \* drawing calls made, in order
    outFile,    \* the file at --output
    err,        \* the exception in flight
    exitCode    \* -1 while running, then the exit status of the process

vars == <<prog, entry, argv, fs, df, pc, console, parsers, calls, fig, draws,
          outFile, err, exitCode>>

-----------------------------------------------------------------------------
(* Bounds of the model *)

NRows == 3
MaxIoFail == 2
MaxDistinct == 12

(* Program constants *)

DefaultThreshold == 70
ReportThreshold == 70
TopN == 10

-----------------------------------------------------------------------------
(* Optional values *)

None == [given |-> FALSE, val |-> <<>>]

Some(v) == [given |-> TRUE, val |-> v]

Truthy(o) == o.given /\ o.val # <<>>

NoErr == [type |-> "none", msg |-> "none", arg |-> <<>>]

Line(l, a) == [line |-> l, arg |-> a]

Null == -1

-----------------------------------------------------------------------------
(* Strings *)

LowerChar(c) ==
    CASE c = "C" -> "c" [] c = "S" -> "s" [] c = "V" -> "v" [] c = "X" -> "x"
      [] c = "L" -> "l" [] c = "J" -> "j" [] c = "O" -> "o" [] c = "N" -> "n"
      [] c = "T" -> "t" [] c = "B" -> "b" [] c = "D" -> "d"
      [] OTHER -> c

Lower(s) == [i \in 1..Len(s) |-> LowerChar(s[i])]

LastIndexOf(s, c) ==
    LET hits == {i \in 1..Len(s) : s[i] = c}
    IN  IF hits = {} THEN 0 ELSE CHOOSE i \in hits : \A k \in hits : k <= i

\* Path(p).name: the final component of the path
FinalName(p) == SubSeq(p, LastIndexOf(p, "/") + 1, Len(p))

\* Path(p).suffix: from the last dot of the final component, unless that dot
\* is its first or its last character
Suffix(p) ==
    LET name == FinalName(p)
        i == LastIndexOf(name, ".")
    IN  IF 1 < i /\ i < Len(name) THEN SubSeq(name, i, Len(name)) ELSE <<>>

RECURSIVE Split(_, _)
\* str.split(sep) for a one-character separator
Split(s, sep) ==
    LET hits == {i \in 1..Len(s) : s[i] = sep}
    IN  IF hits = {} THEN <<s>>
        ELSE LET i == CHOOSE k \in hits : \A h \in hits : k <= h
             IN  <<SubSeq(s, 1, i - 1)>> \o Split(SubSeq(s, i + 1, Len(s)), sep)

-----------------------------------------------------------------------------
(* load_data *)

ExtCsv == <<".", "c", "s", "v">>
ExtXlsx == <<".", "x", "l", "s", "x">>
ExtXls == <<".", "x", "l", "s">>
ExtJson == <<".", "j", "s", "o", "n">>
ExtParquet == <<".", "p", "a", "r", "q", "u", "e", "t">>

\* variant: without .lower()
FileExtCaseSensitive(p) == Suffix(p)

\* file_ext = Path(file_path).suffix.lower()
FileExt(p) == Lower(Suffix(p))

\* the library parser reading a file of the given content
ParseOutcome(parser, content) ==
    CASE parser = "read_csv:utf-8" ->
            CASE content = "wellformed" -> NoErr
              [] content = "empty" -> [type |-> "EmptyDataError", msg |-> "parse", arg |-> <<>>]
              [] OTHER -> [type |-> "UnicodeDecodeError", msg |-> "parse", arg |-> <<>>]
      [] parser = "read_csv:shift-jis" ->
            CASE content \in {"wellformed", "sjis"} -> NoErr
              [] content = "empty" -> [type |-> "EmptyDataError", msg |-> "parse", arg |-> <<>>]
              [] OTHER -> [type |-> "UnicodeDecodeError", msg |-> "parse", arg |-> <<>>]
      [] OTHER ->
            IF content = "wellformed" THEN NoErr
            ELSE [type |-> "ParserError", msg |-> "parse", arg |-> <<>>]

Raised(e, ps, out) == [ok |-> FALSE, df |-> <<>>, err |-> e, parsers |-> ps, out |-> out]

Loaded(t, ps, out) == [ok |-> TRUE, df |-> t, err |-> NoErr, parsers |-> ps, out |-> out]

ReadWith(parser, f) ==
    LET e == ParseOutcome(parser, f.content)
    IN  IF e = NoErr THEN Loaded(f.table, <<parser>>, <<>>) ELSE Raised(e, <<parser>>, <<>>)

\* the try/except of the .csv branch: any exception of the first read is caught
ReadCsv(f) ==
    LET first == ParseOutcome("read_csv:utf-8", f.content)
        second == ParseOutcome("read_csv:shift-jis", f.content)
        diag == <<Line("csv-read-failed", <<first.type>>), Line("retry-with-encoding", <<>>)>>
    IN  IF first = NoErr THEN Loaded(f.table, <<"read_csv:utf-8">>, <<>>)
        ELSE IF second = NoErr
        THEN Loaded(f.table, <<"read_csv:utf-8", "read_csv:shift-jis">>, diag)
        ELSE Raised(second, <<"read_csv:utf-8", "read_csv:shift-jis">>, diag)

load_data(f) ==
    IF ~f.exists
    THEN Raised([type |-> "FileNotFoundError", msg |-> "file-not-found", arg |-> f.path],
                <<>>, <<>>)
    ELSE LET file_ext == FileExt(f.path)
         IN  IF file_ext = ExtCsv THEN ReadCsv(f)
             ELSE IF file_ext \in {ExtXlsx, ExtXls} THEN ReadWith("read_excel", f)
             ELSE IF file_ext = ExtJson THEN ReadWith("read_json", f)
             ELSE IF file_ext = ExtParquet THEN ReadWith("read_parquet", f)
             ELSE Raised([type |-> "ValueError", msg |-> "unsupported-format",
                          arg |-> file_ext], <<>>, <<>>)

-----------------------------------------------------------------------------
(* Tables *)

HasCol(t, c) == \E i \in 1..Len(t) : t[i].name = c

Col(t, c) == t[CHOOSE i \in 1..Len(t) : t[i].name = c]

IsNum(col) == col.kind = "num"

IsText(col) == col.kind \in {"text", "date"}

\* df.select_dtypes(include=["number"])
NumericCols(t) == SelectSeq(t, IsNum)

\* df.select_dtypes(include=["object", "category"])
CategoricalCols(t) == SelectSeq(t, IsText)

Names(t) == [i \in 1..Len(t) |-> t[i].name]

RowCount(t) == IF Len(t) = 0 THEN 0 ELSE Len(t[1].vals)

RowAt(t, r) == [i \in 1..Len(t) |-> t[i].vals[r]]

\* df.duplicated().sum(): rows equal to an earlier row
DupCount(t) ==
    Cardinality({r \in 1..RowCount(t) : \E q \in 1..(r - 1) : RowAt(t, q) = RowAt(t, r)})

RECURSIVE SumSeq(_)
SumSeq(s) == IF s = <<>> THEN 0 ELSE Head(s) + SumSeq(Tail(s))

Dot(x, y) == SumSeq([i \in 1..Len(x) |-> x[i] * y[i]])

\* n * sum(xy) - sum(x) * sum(y): the numerator of Pearson's r, scaled
Cov(x, y) == Len(x) * Dot(x, y) - SumSeq(x) * SumSeq(y)

\* r is NaN when either column is constant
CorrIsNaN(x, y) == Cov(x, x) = 0 \/ Cov(y, y) = 0

\* abs(corr_matrix.iloc[i, j]) >= threshold, threshold in hundredths;
\* a comparison with NaN is false
AbsCorrGE(x, y, threshold) ==
    /\ ~CorrIsNaN(x, y)
    /\ \/ threshold <= 0
       \/ Cov(x, y) * Cov(x, y) * 10000 >= threshold * threshold * Cov(x, x) * Cov(y, y)

-----------------------------------------------------------------------------
(* Program 1: basic_analysis.py *)

\* the console sections of basic_statistics, up to the failure of
\* df.describe() on a table without columns
basic_statistics(t) ==
    LET before == <<Line("basic-info", <<>>), Line("dtypes", <<>>), Line("missing", <<>>)>>
    IN  IF Len(t) = 0
        THEN [err |-> [type |-> "ValueError", msg |-> "describe-without-columns",
                       arg |-> <<>>],
              lines |-> before]
        ELSE [err |-> NoErr,
              lines |-> before \o <<Line("describe", <<>>)>>
                        \o (IF Len(CategoricalCols(t)) > 0
                            THEN <<Line("describe-categorical", <<>>)>> ELSE <<>>)]

check_duplicates(t) ==
    <<Line("duplicates", <<>>)>>
    \o (IF DupCount(t) > 0 THEN <<Line("duplicate-examples", <<>>)>> ELSE <<>>)

RowPairs(i) == [j \in 1..(i - 1) |-> <<i, j>>]

RECURSIVE LowerTriangleFrom(_, _)
LowerTriangleFrom(i, n) ==
    IF i > n THEN <<>> ELSE RowPairs(i) \o LowerTriangleFrom(i + 1, n)

RECURSIVE FullSquareFrom(_, _)
FullSquareFrom(i, n) ==
    IF i > n THEN <<>>
    ELSE [j \in 1..n |-> <<i, j>>] \o FullSquareFrom(i + 1, n)

\* variant: for j in range(n)
LowerTriangleFullSquare(n) == FullSquareFrom(1, n)

\* for i in range(n): for j in range(i): the visited (i, j), in order
LowerTriangle(n) == LowerTriangleFrom(1, n)

\* the lines of the correlation loop over the numeric columns
PairLines(numeric, threshold) ==
    LET visited == LowerTriangle(Len(numeric))
        Meets(p) == AbsCorrGE(numeric[p[1]].vals, numeric[p[2]].vals, threshold)
        kept == SelectSeq(visited, Meets)
    IN  [k \in 1..Len(kept) |->
            Line("pair", <<numeric[kept[k][1]].name, numeric[kept[k][2]].name>>)]

\* variant: the threshold parameter is ignored
analyze_correlations_fixed(t, threshold) ==
    LET numeric == NumericCols(t)
    IN  IF Len(numeric) < 2
        THEN <<Line("correlation-header", <<>>), Line("correlation-skipped", <<>>)>>
        ELSE <<Line("correlation-header", <<>>)>> \o PairLines(numeric, DefaultThreshold)

analyze_correlations(t, threshold) ==
    LET numeric == NumericCols(t)
    IN  IF Len(numeric) < 2
        THEN <<Line("correlation-header", <<>>), Line("correlation-skipped", <<>>)>>
        ELSE <<Line("correlation-header", <<>>)>> \o PairLines(numeric, threshold)

\* everything save_analysis_report writes, in order
ReportLines(t) ==
    <<Line("basic-info", <<>>), Line("dtypes", <<>>), Line("missing", <<>>),
      Line("describe", <<>>)>>
    \o (IF Len(CategoricalCols(t)) > 0
        THEN <<Line("describe-categorical", <<>>)>> ELSE <<>>)
    \o <<Line("duplicates", <<>>)>>
    \o (IF Len(NumericCols(t)) >= 2
        THEN <<Line("correlation-header", <<>>)>>
             \o PairLines(NumericCols(t), ReportThreshold)
        ELSE <<>>)

OldFile == [exists |-> TRUE, body |-> <<Line("old-content", <<>>)>>]

NoFile == [exists |-> FALSE, body |-> <<>>]

IOError == [type |-> "OSError", msg |-> "io", arg |-> <<>>]

\* open(output_path, "w") truncates, then the lines are written one by one;
\* ioFail = -1: open raises; ioFail = k >= 1: the k-th write raises
save_analysis_report(t, old, ioFail) ==
    LET lines == ReportLines(t)
    IN  IF ioFail = -1 THEN [err |-> IOError, file |-> old]
        ELSE IF 1 <= ioFail /\ ioFail <= Len(lines)
        THEN [err |-> IOError,
              file |-> [exists |-> TRUE, body |-> SubSeq(lines, 1, ioFail - 1)]]
        ELSE [err |-> NoErr, file |-> [exists |-> TRUE, body |-> lines]]

-----------------------------------------------------------------------------
(* Actions common to both programs *)

\* parser.parse_args(): neither parser defines --threshold, and argparse
\* exits with status 2 on an option it does not know
ParseArgs ==
    /\ pc = "start"
    /\ IF argv.threshold.given
       THEN pc' = "exit" /\ exitCode' = 2
       ELSE pc' = "load" /\ exitCode' = exitCode
    /\ UNCHANGED <<prog, entry, argv, fs, df, console, parsers, calls, fig, draws,
                   outFile, err>>

LoadData ==
    /\ pc = "load"
    /\ LET r == load_data(fs)
       IN  /\ parsers' = parsers \o r.parsers
           /\ console' = console \o r.out
           /\ df' = r.df
           /\ err' = r.err
           /\ pc' = IF r.ok THEN "loaded" ELSE "raised"
    /\ UNCHANGED <<prog, entry, argv, fs, calls, fig, draws, outFile, exitCode>>

\* variant: the handler prints and exits with status 1
HandlerExits ==
    /\ pc = "raised"
    /\ console' = Append(console, Line("error", <<err.msg>> \o err.arg))
    /\ pc' = "done"
    /\ exitCode' = 1
    /\ UNCHANGED <<prog, entry, argv, fs, df, parsers, calls, fig, draws, outFile, err>>

\* except Exception as e: print(...), and main returns
Handler ==
    /\ pc = "raised"
    /\ console' = Append(console, Line("error", <<err.msg>> \o err.arg))
    /\ pc' = "done"
    /\ exitCode' = 0
    /\ UNCHANGED <<prog, entry, argv, fs, df, parsers, calls, fig, draws, outFile, err>>

-----------------------------------------------------------------------------
(* Actions of program 1 *)

PrintHead ==
    /\ prog = 1 /\ pc = "loaded"
    /\ console' = Append(console, Line("head", <<>>))
    /\ pc' = "stats"
    /\ UNCHANGED <<prog, entry, argv, fs, df, parsers, calls, fig, draws, outFile,
                   err, exitCode>>

BasicStatistics ==
    /\ pc = "stats"
    /\ LET r == basic_statistics(df)
       IN  /\ console' = console \o r.lines
           /\ err' = r.err
           /\ pc' = IF r.err = NoErr THEN "dups" ELSE "raised"
    /\ UNCHANGED <<prog, entry, argv, fs, df, parsers, calls, fig, draws, outFile,
                   exitCode>>

CheckDuplicates ==
    /\ pc = "dups"
    /\ console' = console \o check_duplicates(df)
    /\ pc' = "corr"
    /\ UNCHANGED <<prog, entry, argv, fs, df, parsers, calls, fig, draws, outFile,
                   err, exitCode>>

\* main calls analyze_correlations(df): the threshold is the default;
\* a direct call passes its own
AnalyzeCorrelations ==
    /\ pc = "corr"
    /\ LET threshold == IF entry = "main" THEN DefaultThreshold
                        ELSE argv.threshold.val[1]
       IN  console' = console \o analyze_correlations(df, threshold)
    /\ pc' = IF entry = "main" THEN "save" ELSE "done"
    /\ UNCHANGED <<prog, entry, argv, fs, df, parsers, calls, fig, draws, outFile,
                   err, exitCode>>

\* if args.output: save_analysis_report(df, args.output)
SaveAnalysisReport ==
    /\ pc = "save"
    /\ Truthy(argv.output)
    /\ LET r == save_analysis_report(df, outFile, fs.ioFail)
       IN  /\ outFile' = r.file
           /\ err' = r.err
           /\ IF r.err = NoErr
              THEN /\ console' = Append(console, Line("report-saved", <<>>))
                   /\ pc' = "done"
                   /\ exitCode' = 0
              ELSE /\ console' = console
                   /\ pc' = "raised"
                   /\ exitCode' = exitCode
    /\ UNCHANGED <<prog, entry, argv, fs, df, parsers, calls, fig, draws>>

ReturnWithoutReport ==
    /\ pc = "save"
    /\ ~Truthy(argv.output)
    /\ pc' = "done"
    /\ exitCode' = 0
    /\ UNCHANGED <<prog, entry, argv, fs, df, console, parsers, calls, fig, draws,
                   outFile, err>>

-----------------------------------------------------------------------------
(* Program 2: visualization.py *)

MissingColumn(c) == [type |-> "ValueError", msg |-> "missing-column", arg |-> c]

NotNumeric(c) == [type |-> "ValueError", msg |-> "not-numeric", arg |-> c]

MissingOption(chart) == [type |-> "ValueError", msg |-> "missing-option", arg |-> <<chart>>]

DateParse(c) == [type |-> "ValueError", msg |-> "date-parse", arg |-> c]

\* a drawing call: the function, the columns of the data handed to it, the
\* colouring column, and for a bar chart the bars
Draw(fn, cols, hue, xs, ys) == [fn |-> fn, cols |-> cols, hue |-> hue, xs |-> xs, ys |-> ys]

\* what a chart function did before it hands over to savefig/show:
\* the exception it raised (or NoErr), the lines it printed, the figures it
\* created, its drawing calls, whether a figure is to be rendered, and df
Chart(e, lines, figs, drawn, render, t) ==
    [err |-> e, lines |-> lines, figs |-> figs, draws |-> drawn, render |-> render,
     df |-> t]

Fails(e, t) == Chart(e, <<>>, 0, <<>>, FALSE, t)

\* variant: plt.figure() before the checks
plot_histogram_figure_first(t, column) ==
    IF ~HasCol(t, column) THEN Chart(MissingColumn(column), <<>>, 1, <<>>, FALSE, t)
    ELSE IF ~IsNum(Col(t, column)) THEN Chart(NotNumeric(column), <<>>, 1, <<>>, FALSE, t)
    ELSE Chart(NoErr, <<>>, 1, <<Draw("histplot", <<column>>, None, <<>>, <<>>)>>, TRUE, t)

plot_histogram(t, column) ==
    IF ~HasCol(t, column) THEN Fails(MissingColumn(column), t)
    ELSE IF ~IsNum(Col(t, column)) THEN Fails(NotNumeric(column), t)
    ELSE Chart(NoErr, <<>>, 1, <<Draw("histplot", <<column>>, None, <<>>, <<>>)>>, TRUE, t)

plot_boxplot(t, column, by) ==
    IF ~HasCol(t, column) THEN Fails(MissingColumn(column), t)
    ELSE IF ~IsNum(Col(t, column)) THEN Fails(NotNumeric(column), t)
    ELSE IF by.given /\ ~HasCol(t, by.val) THEN Fails(MissingColumn(by.val), t)
    ELSE Chart(NoErr, <<>>, 1,
               <<Draw("boxplot", IF by.given THEN <<by.val, column>> ELSE <<column>>,
                      None, <<>>, <<>>)>>,
               TRUE, t)

plot_scatter(t, x, y, hue) ==
    IF ~HasCol(t, x) THEN Fails(MissingColumn(x), t)
    ELSE IF ~HasCol(t, y) THEN Fails(MissingColumn(y), t)
    ELSE IF ~IsNum(Col(t, x)) THEN Fails(NotNumeric(x), t)
    ELSE IF ~IsNum(Col(t, y)) THEN Fails(NotNumeric(y), t)
    ELSE IF hue.given /\ ~HasCol(t, hue.val) THEN Fails(MissingColumn(hue.val), t)
    ELSE Chart(NoErr, <<>>, 1, <<Draw("scatterplot", <<x, y>>, hue, <<>>, <<>>)>>, TRUE, t)

plot_correlation_heatmap(t) ==
    LET numeric == NumericCols(t)
    IN  IF Len(numeric) < 2
        THEN Chart(NoErr, <<Line("heatmap-skipped", <<>>)>>, 0, <<>>, FALSE, t)
        ELSE Chart(NoErr, <<>>, 1, <<Draw("heatmap", Names(numeric), None, <<>>, <<>>)>>,
                   TRUE, t)

\* the first exception of: for col in columns: (exists?) (numeric?)
ColumnsError(t, columns) ==
    LET bad == {i \in 1..Len(columns) :
                    ~HasCol(t, columns[i]) \/ ~IsNum(Col(t, columns[i]))}
    IN  IF bad = {} THEN NoErr
        ELSE LET i == CHOOSE k \in bad : \A h \in bad : k <= h
             IN  IF ~HasCol(t, columns[i]) THEN MissingColumn(columns[i])
                 ELSE NotNumeric(columns[i])

\* columns: None, or Some(list of names); hue: None, or Some(name)
plot_pairplot(t, columns, hue) ==
    LET plot_df == IF columns.given
                   THEN [i \in 1..Len(columns.val) |-> Col(t, columns.val[i])]
                   ELSE NumericCols(t)
        handed == IF hue.given THEN plot_df \o <<Col(t, hue.val)>> ELSE plot_df
    IN  IF ~columns.given /\ Len(NumericCols(t)) < 2
        THEN Chart(NoErr, <<Line("pairplot-skipped", <<>>)>>, 0, <<>>, FALSE, t)
        ELSE IF columns.given /\ ColumnsError(t, columns.val) # NoErr
        THEN Fails(ColumnsError(t, columns.val), t)
        ELSE IF hue.given /\ ~HasCol(t, hue.val) THEN Fails(MissingColumn(hue.val), t)
        ELSE Chart(NoErr, <<>>, 1, <<Draw("pairplot", Names(handed), hue, <<>>, <<>>)>>,
                   TRUE, t)

\* Series.value_counts(): the distinct non-missing values with their counts,
\* most frequent first, equal counts in order of first appearance
value_counts(vals) ==
    LET present == {vals[i] : i \in 1..Len(vals)} \ {Null}
        Count(v) == Cardinality({i \in 1..Len(vals) : vals[i] = v})
        First(v) == CHOOSE i \in 1..Len(vals) :
                        vals[i] = v /\ \A k \in 1..(i - 1) : vals[k] # v
        Before(w, v) == Count(w) > Count(v) \/ (Count(w) = Count(v) /\ First(w) < First(v))
        Rank(v) == 1 + Cardinality({w \in present : Before(w, v)})
        index == [k \in 1..Cardinality(present) |-> CHOOSE v \in present : Rank(v) = k]
    IN  [index |-> index, values |-> [k \in 1..Len(index) |-> Count(index[k])]]

\* variant: >= 10
TruncateAtTen(n) == n >= TopN

\* if len(value_counts) > 10
Truncate(n) == n > TopN

plot_count(t, column) ==
    IF ~HasCol(t, column) THEN Fails(MissingColumn(column), t)
    ELSE LET vc == value_counts(Col(t, column).vals)
             cut == Truncate(Len(vc.index))
             shown == IF cut THEN [index |-> SubSeq(vc.index, 1, TopN),
                                   values |-> SubSeq(vc.values, 1, TopN)]
                      ELSE vc
         IN  Chart(NoErr,
                   IF cut THEN <<Line("count-truncated", column)>> ELSE <<>>,
                   1,
                   <<Draw("barplot", <<column>>, None, shown.index, shown.values)>>,
                   TRUE, t)

\* pd.to_datetime(df[date_column]) succeeds on numbers and on date strings
CanParseDate(col) == col.kind \in {"num", "date", "datetime"}

\* df[date_column] = pd.to_datetime(df[date_column])
WithDatetime(t, c) ==
    [i \in 1..Len(t) |-> IF t[i].name = c THEN [t[i] EXCEPT !.kind = "datetime"] ELSE t[i]]

plot_time_series(t, date_column, value_column, freq) ==
    IF ~HasCol(t, date_column) THEN Fails(MissingColumn(date_column), t)
    ELSE IF ~HasCol(t, value_column) THEN Fails(MissingColumn(value_column), t)
    ELSE IF ~IsNum(Col(t, value_column)) THEN Fails(NotNumeric(value_column), t)
    ELSE IF ~CanParseDate(Col(t, date_column)) THEN Fails(DateParse(date_column), t)
    ELSE Chart(NoErr, <<>>, 1,
               <<Draw(IF freq.given THEN "plot-resampled" ELSE "plot",
                      <<date_column, value_column>>, None, <<>>, <<>>)>>,
               TRUE, WithDatetime(t, date_column))

Image == [exists |-> TRUE, body |-> <<Line("image", <<>>)>>]

CallOf(type) ==
    CASE type = "hist" -> "plot_histogram"
      [] type = "box" -> "plot_boxplot"
      [] type = "scatter" -> "plot_scatter"
      [] type = "corr" -> "plot_correlation_heatmap"
      [] type = "pair" -> "plot_pairplot"
      [] type = "count" -> "plot_count"
      [] type = "time" -> "plot_time_series"

\* variant: "and" for "or" in the scatter and time checks
RequiredMissingBoth(a) ==
    CASE a.type \in {"hist", "box", "count"} -> ~a.column.given
      [] a.type = "scatter" -> ~a.x.given /\ ~a.y.given
      [] a.type = "time" -> ~a.date.given /\ ~a.column.given
      [] OTHER -> FALSE

\* the option checks of main, per chart type
RequiredMissing(a) ==
    CASE a.type \in {"hist", "box", "count"} -> ~a.column.given
      [] a.type = "scatter" -> ~a.x.given \/ ~a.y.given
      [] a.type = "time" -> ~a.date.given \/ ~a.column.given
      [] OTHER -> FALSE

\* setup_plot_style(), then the branch on args.type up to the call
MainDispatch ==
    /\ prog = 2 /\ pc = "loaded"
    /\ IF RequiredMissing(argv)
       THEN /\ err' = MissingOption(argv.type)
            /\ pc' = "raised"
            /\ calls' = calls
       ELSE /\ err' = err
            /\ pc' = CallOf(argv.type)
            /\ calls' = Append(calls, CallOf(argv.type))
    /\ UNCHANGED <<prog, entry, argv, fs, df, console, parsers, fig, draws, outFile,
                   exitCode>>

\* the rest of a chart function: plt.savefig or plt.show, then plt.close;
\* plt.savefig is one library call: it writes the image (fs.ioFail = 0) or
\* it raises, and then the path is taken to be left as it was
Render(r, label) ==
    /\ fig' = fig + r.figs
    /\ df' = r.df
    /\ err' = IF r.err # NoErr THEN r.err
              ELSE IF r.render /\ Truthy(argv.output) /\ fs.ioFail # 0 THEN IOError
              ELSE err
    /\ pc' = IF err' # NoErr THEN "raised" ELSE "done"
    /\ exitCode' = IF err' # NoErr THEN exitCode ELSE 0
    /\ draws' = draws \o r.draws
                \o (IF r.err = NoErr /\ r.render
                    THEN IF Truthy(argv.output)
                         THEN <<Draw("savefig", <<>>, None, <<>>, <<>>)>>
                         ELSE <<Draw("show", <<>>, None, <<>>, <<>>)>>
                    ELSE <<>>)
    /\ outFile' = IF r.err = NoErr /\ r.render /\ Truthy(argv.output)
                  THEN IF fs.ioFail = 0 THEN Image ELSE outFile
                  ELSE outFile
    /\ console' = console \o r.lines
                  \o (IF r.err = NoErr /\ r.render /\ Truthy(argv.output)
                         /\ fs.ioFail = 0
                      THEN <<Line("saved", <<label>>)>> ELSE <<>>)
    /\ UNCHANGED <<prog, entry, argv, fs, parsers, calls>>

PlotHistogram ==
    /\ pc = "plot_histogram"
    /\ Render(plot_histogram(df, argv.column.val), "hist")

PlotBoxplot ==
    /\ pc = "plot_boxplot"
    /\ Render(plot_boxplot(df, argv.column.val, argv.by), "box")

PlotScatter ==
    /\ pc = "plot_scatter"
    /\ Render(plot_scatter(df, argv.x.val, argv.y.val, argv.hue), "scatter")

PlotCorrelationHeatmap ==
    /\ pc = "plot_correlation_heatmap"
    /\ Render(plot_correlation_heatmap(df), "corr")

\* columns = args.column.split(",") if args.column else None
PairColumns(a) == IF Truthy(a.column) THEN Some(Split(a.column.val, ",")) ELSE None

PlotPairplot ==
    /\ pc = "plot_pairplot"
    /\ Render(plot_pairplot(df, PairColumns(argv), argv.hue), "pair")

PlotCount ==
    /\ pc = "plot_count"
    /\ Render(plot_count(df, argv.column.val), "count")

PlotTimeSeries ==
    /\ pc = "plot_time_series"
    /\ Render(plot_time_series(df, argv.date.val, argv.column.val, argv.freq), "time")

-----------------------------------------------------------------------------
(* Inputs *)

A == <<"a">>
B == <<"b">>
C == <<"c">>
G == <<"g">>
W == <<"W">>
OutPath == <<"o">>

Paths ==
    { <<"d", ".", "c", "s", "v">>,
      <<"d", ".", "C", "S", "V">>,
      <<"d", ".", "x", "l", "s", "x">>,
      <<"d", ".", "X", "L", "S">>,
      <<"d", ".", "J", "s", "o", "n">>,
      <<"d", ".", "p", "a", "r", "q", "u", "e", "t">>,
      <<"d", ".", "T", "X", "T">>,
      <<".", "c", "s", "v">>,
      <<"a", ".", "c", "s", "v", "/", "d">>,
      <<"d", ".", "c", "s", "v", ".", "b", "a", "k">> }

JsonPath == <<"d", ".", "J", "s", "o", "n">>

Contents == {"wellformed", "sjis", "undecodable", "empty"}

Thresholds == {0, 50, 70, 100}

Values == {0, 1}

Vectors == [1..NRows -> Values]

\* the numeric column names of the tables handed to a direct call, and of
\* the tables program 1 loads
CallColNames == <<A, B, C>>

MainColNames == <<A, B>>

NumCol(name, vals) == [name |-> name, kind |-> "num", vals |-> vals]

TextCol(name, n) == [name |-> name, kind |-> "text", vals |-> [r \in 1..n |-> 0]]

\* tables of numeric columns named by a prefix of names, with or without a
\* leading text column
Tables(names) ==
    UNION { { (IF hasText THEN <<TextCol(G, NRows)>> ELSE <<>>)
              \o [i \in 1..k |-> NumCol(names[i], vecs[i])] :
              vecs \in [1..k -> Vectors], hasText \in BOOLEAN } : k \in 0..Len(names) }

SampleTable ==
    <<[name |-> A, kind |-> "num", vals |-> <<0>>],
      [name |-> B, kind |-> "num", vals |-> <<0>>],
      [name |-> G, kind |-> "text", vals |-> <<0>>]>>

\* tables of program 2: a, b and g of every kind, or absent; one row
VisTables ==
    { SelectSeq(<<[name |-> A, kind |-> ka, vals |-> <<0>>],
                  [name |-> B, kind |-> kb, vals |-> <<0>>],
                  [name |-> G, kind |-> kg, vals |-> <<0>>]>>,
                LAMBDA c : c.kind # "absent") :
        ka \in {"num", "text", "absent"}, kb \in {"num", "absent"},
        kg \in {"num", "text", "date", "absent"} }

RECURSIVE Repeat(_, _)
Repeat(v, n) == IF n = 0 THEN <<>> ELSE <<v>> \o Repeat(v, n - 1)

RECURSIVE CountRows(_, _, _)
\* the values k..n, value v occurring 1 + (v * m) % 3 times
CountRows(k, n, m) ==
    IF k > n THEN <<>> ELSE Repeat(k, 1 + ((k * m) % 3)) \o CountRows(k + 1, n, m)

\* one-column tables with 0..MaxDistinct distinct values and 0 or 1 missing value
CountTables ==
    { <<[name |-> A, kind |-> "text",
         vals |-> (IF missing THEN <<Null>> ELSE <<>>) \o CountRows(1, n, m)]>> :
        n \in 0..MaxDistinct, m \in 0..2, missing \in BOOLEAN }

Args(type, output, column, x, y, by, hue, date, freq, threshold) ==
    [type |-> type, output |-> output, column |-> column, x |-> x, y |-> y, by |-> by,
     hue |-> hue, date |-> date, freq |-> freq, threshold |-> threshold]

Args1(output, threshold) ==
    Args("hist", output, None, None, None, None, None, None, None, threshold)

Opt(S) == {None} \cup {Some(v) : v \in S}

Types == {"hist", "box", "scatter", "corr", "pair", "count", "time"}

\* the command lines of program 2, without --output
Args2 ==
    { Args("hist", None, c, None, None, None, None, None, None, None) :
        c \in Opt({A, B, G, <<>>}) }
    \cup { Args("box", None, c, None, None, by, None, None, None, None) :
        c \in Opt({A, G}), by \in Opt({B, G}) }
    \cup { Args("scatter", None, None, x, y, None, hue, None, None, None) :
        x \in Opt({A, G}), y \in Opt({B, G}), hue \in Opt({G}) }
    \cup { Args("corr", None, None, None, None, None, None, None, None, None) }
    \cup { Args("pair", None, c, None, None, None, hue, None, None, None) :
        c \in Opt({A, <<"a", ",", "b">>, <<"a", ",", "g">>,
                   <<"a", ",", "b", ",", "g">>, <<>>}),
        hue \in Opt({A, B, G}) }
    \cup { Args("count", None, c, None, None, None, None, None, None, None) :
        c \in Opt({A, G}) }
    \cup { Args("time", None, c, None, None, None, None, date, freq, None) :
        c \in Opt({B, G}), date \in Opt({A, G}), freq \in Opt({W}) }

\* per chart type: no option given, and the usual options given
Args2Plain ==
    { Args(t, None, None, None, None, None, None, None, None, None) : t \in Types }
    \cup { Args(t, None, Some(A), Some(A), Some(B), None, None, Some(G), None, None) :
             t \in Types }

\* --output absent; or present, over an old file or none, with each i/o failure
OutEnvs ==
    { [output |-> None, outOld |-> FALSE, ioFail |-> 0] }
    \cup { [output |-> Some(OutPath), outOld |-> old, ioFail |-> k] :
             old \in BOOLEAN, k \in -1..MaxIoFail }

OutEnvsPlain ==
    { [output |-> None, outOld |-> FALSE, ioFail |-> 0],
      [output |-> Some(OutPath), outOld |-> FALSE, ioFail |-> 0] }

File(path, exists, content, table, oe) ==
    [path |-> path, exists |-> exists, content |-> content, table |-> table,
     outOld |-> oe.outOld, ioFail |-> oe.ioFail]

\* every path, present with each content (holding the sample table when it
\* holds a table at all) or absent
AllFiles(oe) ==
    { File(p, TRUE, c, IF c \in {"wellformed", "sjis"} THEN SampleTable ELSE <<>>, oe) :
        p \in Paths, c \in Contents }
    \cup { File(p, FALSE, "absent", <<>>, oe) : p \in Paths }

Begin(p, e, a, f, at, t) ==
    /\ prog = p
    /\ entry = e
    /\ argv = a
    /\ fs = f
    /\ df = t
    /\ pc = at
    /\ console = <<>>
    /\ parsers = <<>>
    /\ calls = <<>>
    /\ fig = 0
    /\ draws = <<>>
    /\ outFile = IF f.outOld THEN OldFile ELSE NoFile
    /\ err = NoErr
    /\ exitCode = -1

\* program 1 on every file
InitLoad1 ==
    \E oe \in OutEnvs : \E f \in AllFiles(oe) :
        Begin(1, "main", Args1(oe.output, None), f, "start", <<>>)

\* program 1 on every table
InitTables1 ==
    \E oe \in OutEnvs : \E t \in Tables(MainColNames) :
        Begin(1, "main", Args1(oe.output, None),
              File(JsonPath, TRUE, "wellformed", t, oe), "start", <<>>)

\* program 1 with --threshold on the command line
InitThreshold1 ==
    \E oe \in OutEnvsPlain : \E t \in Tables(MainColNames) : \E th \in Thresholds :
        Begin(1, "main", Args1(oe.output, Some(<<th>>)),
              File(JsonPath, TRUE, "wellformed", t, oe), "start", <<>>)

\* analyze_correlations(df, threshold) called on every table with every threshold
InitCall ==
    \E t \in Tables(CallColNames) : \E th \in Thresholds :
        Begin(1, "call", Args1(None, Some(<<th>>)),
              File(JsonPath, TRUE, "wellformed", t,
                   [outOld |-> FALSE, ioFail |-> 0]), "corr", t)

\* program 2 on every file
InitLoad2 ==
    \E oe \in OutEnvsPlain : \E f \in AllFiles(oe) : \E a \in Args2Plain :
        Begin(2, "main", [a EXCEPT !.output = oe.output], f, "start", <<>>)

\* program 2 on every table with every command line
InitCharts2 ==
    \E oe \in OutEnvs : \E t \in VisTables : \E a \in Args2 :
        Begin(2, "main", [a EXCEPT !.output = oe.output],
              File(JsonPath, TRUE, "wellformed", t, oe), "start", <<>>)

\* program 2, --type count, on every count table
InitCount2 ==
    \E oe \in OutEnvsPlain : \E t \in CountTables :
        Begin(2, "main",
              Args("count", oe.output, Some(A), None, None, None, None, None, None, None),
              File(JsonPath, TRUE, "wellformed", t, oe), "start", <<>>)

Init ==
    \/ InitLoad1
    \/ InitTables1
    \/ InitThreshold1
    \/ InitCall
    \/ InitLoad2
    \/ InitCharts2
    \/ InitCount2

Next ==
    \/ ParseArgs
    \/ LoadData
    \/ Handler
    \/ PrintHead
    \/ BasicStatistics
    \/ CheckDuplicates
    \/ AnalyzeCorrelations
    \/ SaveAnalysisReport
    \/ ReturnWithoutReport
    \/ MainDispatch
    \/ PlotHistogram
    \/ PlotBoxplot
    \/ PlotScatter
    \/ PlotCorrelationHeatmap
    \/ PlotPairplot
    \/ PlotCount
    \/ PlotTimeSeries

Spec == Init /\ [][Next]_vars

-----------------------------------------------------------------------------
(* Properties *)

InitialOut == IF fs.outOld THEN OldFile ELSE NoFile

\* load_data has returned or raised in a run of main
AfterLoad == entry = "main" /\ pc \notin {"start", "load", "exit"}

LoadErrors == {"file-not-found", "unsupported-format", "parse"}

LoadFailed == AfterLoad /\ err.msg \in LoadErrors

SameIgnoringCase(s, t) ==
    /\ Len(s) = Len(t)
    /\ \A i \in 1..Len(s) : LowerChar(s[i]) = LowerChar(t[i])

CsvParsers == {"read_csv:utf-8", "read_csv:shift-jis"}

\* C1: load_data on a missing path raises file-not-found and invokes no
\* parser, whatever the extension; on an existing path the extension, compared
\* without regard to case, selects the one parser of its format (.csv the
\* delimited-text parser, .xlsx/.xls the spreadsheet parser, .json the JSON
\* parser, .parquet the columnar parser); any other extension raises
\* unsupported-format naming the extension, and invokes no parser.
C1_LoadDispatch ==
    AfterLoad =>
        LET ext == Suffix(fs.path)
        IN  IF ~fs.exists
            THEN parsers = <<>> /\ err.msg = "file-not-found" /\ err.arg = fs.path
            ELSE IF SameIgnoringCase(ext, ExtCsv)
            THEN parsers # <<>> /\ \A i \in 1..Len(parsers) : parsers[i] \in CsvParsers
            ELSE IF SameIgnoringCase(ext, ExtXlsx) \/ SameIgnoringCase(ext, ExtXls)
            THEN parsers = <<"read_excel">>
            ELSE IF SameIgnoringCase(ext, ExtJson)
            THEN parsers = <<"read_json">>
            ELSE IF SameIgnoringCase(ext, ExtParquet)
            THEN parsers = <<"read_parquet">>
            ELSE /\ parsers = <<>>
                 /\ err.msg = "unsupported-format"
                 /\ SameIgnoringCase(err.arg, ext)

\* an existing .CSV file (upper case) has been read by the delimited-text parser
C1_Witness ==
    /\ AfterLoad
    /\ fs.exists
    /\ Suffix(fs.path) = <<".", "C", "S", "V">>
    /\ parsers = <<"read_csv:utf-8">>
    /\ pc = "loaded"

\* C2: on an existing .csv path there are at most two parse attempts, the
\* first with the standard encoding; the second, with Shift-JIS, happens only
\* after a decode failure of the first (the diagnostic reports a decode
\* failure); no other format and no other failure is retried.
C2_RetryOnlyAfterDecodeFailure ==
    AfterLoad =>
        /\ Len(parsers) <= 2
        /\ Len(parsers) = 2 =>
              /\ parsers = <<"read_csv:utf-8", "read_csv:shift-jis">>
              /\ ParseOutcome("read_csv:utf-8", fs.content).type = "UnicodeDecodeError"
        /\ \A i \in 1..Len(console) :
              console[i].line = "csv-read-failed" =>
                  console[i].arg = <<"UnicodeDecodeError">>

PairLinesOf(lines) == SelectSeq(lines, LAMBDA l : l.line = "pair")

HasLine(lines, name) == \E i \in 1..Len(lines) : lines[i].line = name

\* Pearson's r from the deviations from the mean (scaled by the row count)
Deviations(x) == [i \in 1..Len(x) |-> Len(x) * x[i] - SumSeq(x)]

SumOfProducts(x, y) ==
    SumSeq([i \in 1..Len(x) |-> Deviations(x)[i] * Deviations(y)[i]])

\* |r(x, y)| >= t / 100, false when r is undefined
AbsPearsonAtLeast(x, y, t) ==
    /\ SumOfProducts(x, x) > 0
    /\ SumOfProducts(y, y) > 0
    /\ \/ t <= 0
       \/ 10000 * SumOfProducts(x, y) * SumOfProducts(x, y)
             >= t * t * SumOfProducts(x, x) * SumOfProducts(y, y)

\* the lines list exactly the unordered pairs of distinct numeric columns of
\* table t whose |r| >= threshold, each once, and nothing else
ListsExactly(lines, t, threshold) ==
    LET num == SelectSeq(t, LAMBDA c : c.kind = "num")
        pairs == PairLinesOf(lines)
        Listed(a, b) ==
            Cardinality({k \in 1..Len(pairs) :
                            pairs[k].arg \in {<<a, b>>, <<b, a>>}})
    IN  /\ \A i \in 1..Len(num) : \A j \in 1..(i - 1) :
              Listed(num[i].name, num[j].name)
                  = IF AbsPearsonAtLeast(num[i].vals, num[j].vals, threshold) THEN 1 ELSE 0
        /\ \A k \in 1..Len(pairs) :
              /\ pairs[k].arg[1] # pairs[k].arg[2]
              /\ \E i \in 1..Len(num) : num[i].name = pairs[k].arg[1]
              /\ \E i \in 1..Len(num) : num[i].name = pairs[k].arg[2]

\* analyze_correlations(df, threshold) has been called directly and returned
CallReturned == entry = "call" /\ pc = "done"

NumericCount(t) == Cardinality({i \in 1..Len(t) : t[i].kind = "num"})

\* C4: analyze_correlations prints exactly one line for each unordered pair
\* of distinct numeric columns with |r| >= t, none for a pair below t, never a
\* column with itself and never a pair twice; with fewer than two numeric
\* columns it prints the skipped notice and no pair.
C4_PairsListedOnce ==
    CallReturned =>
        IF NumericCount(df) < 2
        THEN console = <<Line("correlation-header", <<>>),
                         Line("correlation-skipped", <<>>)>>
        ELSE /\ ~HasLine(console, "correlation-skipped")
             /\ ListsExactly(console, df, argv.threshold.val[1])

\* three numeric columns, of which some pair is listed and some pair is not
C4_Witness ==
    /\ CallReturned
    /\ NumericCount(df) = 3
    /\ Len(PairLinesOf(console)) \in {1, 2}
    /\ argv.threshold.val[1] = 70

\* the lines printed by the top-level handler
ErrorLines == SelectSeq(console, LAMBDA l : l.line = "error")

\* C5: every error raised after argument parsing is caught by the handler of
\* main, printed once with the error prefix followed by the error's text, and
\* main returns normally: the exit status is 0 for every error kind as for
\* success.
C5_ErrorsCaughtAndPrintedOnce ==
    (entry = "main" /\ pc \notin {"start", "exit"}) =>
        /\ exitCode \in {-1, 0}
        /\ pc = "raised" => (err # NoErr /\ ErrorLines = <<>> /\ ENABLED Handler)
        /\ pc = "done" =>
              /\ exitCode = 0
              /\ IF err = NoErr THEN ErrorLines = <<>>
                 ELSE /\ Len(ErrorLines) = 1
                      /\ console[Len(console)] = Line("error", <<err.msg>> \o err.arg)
        /\ pc \notin {"raised", "done"} => (err = NoErr /\ ErrorLines = <<>>)

\* program 2 has ended normally after a date-parse failure
C5_Witness ==
    /\ prog = 2
    /\ pc = "done"
    /\ err.msg = "date-parse"
    /\ exitCode = 0
    /\ Len(ErrorLines) = 1

-----------------------------------------------------------------------------
(* Properties of program 2 *)

\* a chart function has been called by main and has returned or raised
ChartReturned == prog = 2 /\ entry = "main" /\ calls # <<>> /\ pc \in {"raised", "done"}

NothingDrawn == fig = 0 /\ draws = <<>> /\ outFile = InitialOut

OptSet(o) == IF o.given THEN {o.val} ELSE {}

SeqSet(q) == {q[i] : i \in 1..Len(q)}

\* the column list of --type pair, as the command line gives it
ListedColumns(a) ==
    IF a.column.given /\ a.column.val # <<>> THEN SeqSet(Split(a.column.val, ",")) ELSE {}

\* the columns a chart of the command line names
NamedColumns(a) ==
    CASE a.type \in {"hist", "count"} -> OptSet(a.column)
      [] a.type = "box" -> OptSet(a.column) \cup OptSet(a.by)
      [] a.type = "scatter" -> OptSet(a.x) \cup OptSet(a.y) \cup OptSet(a.hue)
      [] a.type = "pair" -> ListedColumns(a) \cup OptSet(a.hue)
      [] a.type = "time" -> OptSet(a.date) \cup OptSet(a.column)
      [] OTHER -> {}

\* those of them that the chart requires to be numeric
NumericColumns(a) ==
    CASE a.type \in {"hist", "box", "time"} -> OptSet(a.column)
      [] a.type = "scatter" -> OptSet(a.x) \cup OptSet(a.y)
      [] a.type = "pair" -> ListedColumns(a)
      [] OTHER -> {}

Present(t, c) == \E i \in 1..Len(t) : t[i].name = c

KindOf(t, c) == (CHOOSE col \in SeqSet(t) : col.name = c).kind

\* the chart of command line a is invalid on table t
InvalidChart(a, t) ==
    \/ \E c \in NamedColumns(a) : ~Present(t, c)
    \/ \E c \in NumericColumns(a) : Present(t, c) /\ KindOf(t, c) # "num"
    \/ /\ a.type = "time"
       /\ a.date.given
       /\ Present(t, a.date.val)
       /\ KindOf(t, a.date.val) = "text"

\* the error names a column whose state in the table is what the error says
DescriptiveError(t) ==
    \/ err.msg = "missing-column" /\ ~Present(t, err.arg)
    \/ err.msg = "not-numeric" /\ Present(t, err.arg) /\ KindOf(t, err.arg) # "num"
    \/ err.msg = "date-parse" /\ Present(t, err.arg) /\ KindOf(t, err.arg) = "text"

\* C3 as stated: every chart function fails on an invalid chart with a
\* descriptive error (missing-column for an absent column, wrong-column-type
\* for a present non-numeric one) before any figure is created and before any
\* drawing or saving call, so that nothing is written to the output path.
C3_InvalidChartFailsBeforeDrawing ==
    (ChartReturned /\ InvalidChart(argv, fs.table)) =>
        /\ NothingDrawn
        /\ DescriptiveError(fs.table)

\* plot_pairplot without a column list on a table of fewer than two numeric columns
PairplotSkipped ==
    /\ argv.type = "pair"
    /\ ListedColumns(argv) = {}
    /\ NumericCount(fs.table) < 2

\* C3 as amended: the same, except that plot_pairplot without a column list
\* on a table of fewer than two numeric columns prints the skipped notice and
\* returns without looking at the hue column; still nothing is drawn or written.
C3_InvalidChartDrawsNothing ==
    (ChartReturned /\ InvalidChart(argv, fs.table)) =>
        /\ NothingDrawn
        /\ IF PairplotSkipped
           THEN err = NoErr /\ HasLine(console, "pairplot-skipped")
           ELSE DescriptiveError(fs.table)

\* a histogram of a present text column, with --output, has failed
C3_Witness ==
    /\ ChartReturned
    /\ pc = "done"
    /\ argv.type = "hist"
    /\ Truthy(argv.output)
    /\ err.msg = "not-numeric"
    /\ Present(fs.table, argv.column.val)
    /\ NothingDrawn

\* the chart type's required options are not all on the command line
OptionsMissing(a) ==
    \/ a.type \in {"hist", "box", "count"} /\ ~a.column.given
    \/ a.type = "scatter" /\ (~a.x.given \/ ~a.y.given)
    \/ a.type = "time" /\ (~a.date.given \/ ~a.column.given)

\* C7: after the table has loaded, a chart type whose required options are
\* missing fails with the missing-option message, no chart function is called
\* and nothing is drawn or saved; corr and pair require no option (their chart
\* function is always called); a load error is reported instead of the
\* missing-option error when both apply.
C7_MissingOptionAfterLoad ==
    (prog = 2 /\ AfterLoad /\ pc \in {"raised", "done"}) =>
        IF LoadFailed
        THEN calls = <<>> /\ NothingDrawn
        ELSE IF OptionsMissing(argv)
        THEN /\ err.msg = "missing-option"
             /\ err.arg = <<argv.type>>
             /\ calls = <<>>
             /\ NothingDrawn
        ELSE /\ err.msg # "missing-option"
             /\ calls = <<CallOf(argv.type)>>

\* a scatter plot with --x and without --y has failed after the load
C7_Witness ==
    /\ prog = 2
    /\ pc = "done"
    /\ argv.type = "scatter"
    /\ argv.x.given
    /\ ~argv.y.given
    /\ parsers = <<"read_json">>
    /\ err.msg = "missing-option"
    /\ calls = <<>>

\* the bar chart drawn by plot_count
Bars == SelectSeq(draws, LAMBDA d : d.fn = "barplot")

CountColumn == (CHOOSE col \in SeqSet(fs.table) : col.name = argv.column.val).vals

DistinctValues == SeqSet(CountColumn) \ {Null}

Frequency(v) == Cardinality({i \in 1..Len(CountColumn) : CountColumn[i] = v})

\* plot_count has drawn its bars
CountDrawn == prog = 2 /\ argv.type = "count" /\ pc \in {"raised", "done"} /\ Bars # <<>>

\* C9: plot_count draws one bar per distinct non-missing value when there
\* are at most 10 of them, and prints no notice; with more than 10 it draws
\* exactly the 10 most frequent values, in descending frequency, and prints
\* the truncation notice; the notice is printed iff truncation occurred.
C9_CountTruncation ==
    CountDrawn =>
        LET xs == Bars[1].xs
            ys == Bars[1].ys
            n == Cardinality(DistinctValues)
        IN  /\ Len(Bars) = 1
            /\ Len(xs) = Len(ys)
            /\ \A i, j \in 1..Len(xs) : i # j => xs[i] # xs[j]
            /\ \A i \in 1..Len(xs) : xs[i] \in DistinctValues /\ ys[i] = Frequency(xs[i])
            /\ \A i \in 1..(Len(xs) - 1) : ys[i] >= ys[i + 1]
            /\ IF n <= 10
               THEN Len(xs) = n /\ ~HasLine(console, "count-truncated")
               ELSE /\ Len(xs) = 10
                    /\ \A v \in DistinctValues \ SeqSet(xs) :
                          \A i \in 1..Len(xs) : Frequency(v) <= ys[i]
                    /\ HasLine(console, "count-truncated")

\* twelve distinct values of unequal frequency, ten of them drawn
C9_Witness ==
    /\ CountDrawn
    /\ pc = "done"
    /\ Cardinality(DistinctValues) = 12
    /\ Len(Bars[1].xs) = 10
    /\ Bars[1].ys[1] > Bars[1].ys[10]
    /\ HasLine(console, "count-truncated")

UniqueNames(names) == \A i, j \in 1..Len(names) : i # j => names[i] # names[j]

\* C10: the table plot_pairplot hands to the renderer has no repeated column
\* name, and the hue column appears in it once, as the colouring column and
\* not among the plotted axes.
C10_PairplotColumnsUnique ==
    \A k \in 1..Len(draws) :
        draws[k].fn = "pairplot" =>
            /\ UniqueNames(draws[k].cols)
            /\ draws[k].hue.given =>
                  Cardinality({i \in 1..Len(draws[k].cols) :
                                  draws[k].cols[i] = draws[k].hue.val}) = 1

-----------------------------------------------------------------------------
(* Properties of program 1 *)

\* the report at --output is complete
CompleteReport ==
    /\ outFile.exists
    /\ outFile.body # <<>>
    /\ outFile.body[1].line = "basic-info"
    /\ HasLine(outFile.body, "dtypes")
    /\ HasLine(outFile.body, "missing")
    /\ HasLine(outFile.body, "describe")
    /\ HasLine(outFile.body, "duplicates")
    /\ NumericCount(df) >= 2 => HasLine(outFile.body, "correlation-header")
    /\ ListsExactly(outFile.body, df, 70)

\* C6: at the end of every run the file at --output is either untouched or
\* complete: a complete report in program 1, a complete image in program 2.
C6_NoPartialOutput ==
    (entry = "main" /\ pc = "done") =>
        \/ outFile = InitialOut
        \/ prog = 1 /\ CompleteReport
        \/ prog = 2 /\ outFile = Image

\* the pairs listed on the console
ConsolePairs == PairLinesOf(console)

\* C8 as stated: the console lists the pairs at the threshold configured on
\* the command line.
C8_ConsoleFollowsCommandLine ==
    (prog = 1 /\ entry = "main" /\ argv.threshold.given /\ pc \in {"exit", "done"}) =>
        ListsExactly(console, fs.table, argv.threshold.val[1])

\* C8 as amended: analyze_correlations lists the pairs at the threshold it
\* is called with; the command line of program 1 has no threshold option (one
\* given is a usage error, and nothing is analysed), so main lists at 0.7;
\* the saved report lists exactly the pairs at 0.7.
C8_ThresholdIsAParameterOnly ==
    /\ (entry = "call" /\ pc = "done" /\ NumericCount(df) >= 2) =>
          ListsExactly(console, df, argv.threshold.val[1])
    /\ (prog = 1 /\ entry = "main" /\ argv.threshold.given) =>
          (pc \in {"start", "exit"} /\ console = <<>> /\ outFile = InitialOut)
    /\ (prog = 1 /\ entry = "main" /\ pc = "save") =>
          ListsExactly(console, df, 70)
    /\ (prog = 1 /\ entry = "main" /\ pc = "done" /\ HasLine(console, "report-saved")) =>
          (ListsExactly(outFile.body, df, 70) /\ ListsExactly(console, df, 70))

\* a direct call at threshold 0.5 has listed a pair that 0.7 would not list
C8_Witness ==
    /\ entry = "call"
    /\ pc = "done"
    /\ argv.threshold.val[1] = 50
    /\ ConsolePairs # <<>>
    /\ ~ListsExactly(console, df, 70)

====
